---- MODULE Spec2Model ----
(***************************************************************************)
(* A model of package sqlite (src/sqlite.go): a cgo wrapper around the     *)
(* SQLite C API.  The Go layer (Database, Statement and their methods) is  *)
(* translated method by method; the native engine is the environment: it   *)
(* owns the handles and answers every native call with a status chosen     *)
(* nondeterministically among those the C API documents for that call.     *)
(***************************************************************************)
EXTENDS Integers, Sequences, FiniteSets, TLC

(* ------------------------------ bounds -------------------------------- *)
\* handles (of connections and of statements together) the engine can
\* hand out
MaxHandles == 2
\* rows a statement can yield before the engine stops answering ROW
MaxRows == 2
\* threads that share one Database, and the bracketed sequences each runs
NThreads == 3
NIter == 2

Handles == 1..MaxHandles
StmtIds == 1..MaxHandles
Threads == 1..NThreads
Paths == {"test.db", "/no/such/dir/x.db"}
Sqls == {"SELECT a,b FROM t", "SELEC * FROM t"}
\* parameter indexes a caller passes to a binder; every statement has the
\* single parameter ?1
BindIdx == {1, 2}
ParamIdx == {1}

(* -------------------------- native status codes ----------------------- *)
SQLITE_OK == "SQLITE_OK"
SQLITE_ERROR == "SQLITE_ERROR"
SQLITE_BUSY == "SQLITE_BUSY"
SQLITE_CANTOPEN == "SQLITE_CANTOPEN"
SQLITE_MISUSE == "SQLITE_MISUSE"
SQLITE_RANGE == "SQLITE_RANGE"
SQLITE_ROW == "SQLITE_ROW"
SQLITE_DONE == "SQLITE_DONE"

\* The English text the engine keeps for a handle after a call that ended
\* with status st (sqlite3_errmsg); an error has several possible texts.
ErrStr(st) ==
  CASE st = SQLITE_OK -> {"not an error"}
    [] st = SQLITE_ROW -> {"another row available"}
    [] st = SQLITE_DONE -> {"no more rows available"}
    [] st = SQLITE_ERROR -> {"SQL logic error", "no such table: t"}
    [] st = SQLITE_BUSY -> {"database is locked"}
    [] st = SQLITE_CANTOPEN -> {"unable to open database file"}
    [] st = SQLITE_RANGE -> {"column index out of range"}
    [] st = SQLITE_MISUSE -> {"bad parameter or other API misuse"}

(* ------------------------------ Go values ----------------------------- *)
\* An error value is the sequence of the pieces of its text; nil is the
\* empty sequence (errors.New("") is <<"">>, a non-nil error).
Nil == <<>>
\* errors.New(C.GoString(msg))
ErrorsNew(msg) == <<msg>>
\* fmt.Errorf("couldn't open database file (%s)", path)
OpenErrorf(path) == <<"couldn't open database file (", path, ")">>
\* errors.New("stepping through rows didn't finish with DONE")
StepRowsError == <<"stepping through rows didn't finish with DONE">>
\* a nil *Database or *Statement
NilPtr == 0

VARIABLES
  conn,     \* engine: connection handle -> [state, errmsg]
  stmt,     \* engine: statement handle -> [state, db, row, done, stepped, rc]
  dbs,      \* handles h for which NewDatabase returned &Database{db: h}
  sts,      \* statement handles s for which NewStatement returned a *Statement
  closed,   \* the Go objects on which Close() has been called
  pc,       \* position of the caller: "idle", or inside StepRows
  sr,       \* the running StepRows call
  last,     \* what the last completed operation did and returned
  hist,     \* history of native releases and of the caller's discipline
  lock,     \* Database.lock of each Database: TRUE while locked
  tpc,      \* position of each thread in its bracketed sequence
  tval,     \* the counter value each thread has read
  titer,    \* the sequences each thread has completed
  counter,  \* engine: the counter the threads increment
  tans,     \* the answer of each thread's own last native call
  terr,     \* the error each thread's last operation returned
  gobuf,    \* the caller's []byte, which it may overwrite after a call
  heap,     \* the native transient buffer of the last C.CString / C.CBytes
  param,    \* engine: what parameter ?1 of the statement is bound to
  sent,     \* the binder the caller called last, and the value it passed
  col,      \* engine: column 0 of the row the statement is on
  rcvd      \* what the last column accessor returned to the caller

vars == <<conn, stmt, dbs, sts, closed, pc, sr, last, hist,
          lock, tpc, tval, titer, counter, tans, terr,
          gobuf, heap, param, sent, col, rcvd>>
layer == <<conn, stmt, dbs, sts, closed, pc, sr, last, hist>>
values == <<gobuf, heap, param, sent, col, rcvd>>
threads == <<tpc, tval, titer, counter, tans, terr, values>>

NoConn == [state |-> "none", errmsg |-> "not an error"]
NoStmt == [state |-> "none", db |-> 0, row |-> 0, done |-> FALSE,
           stepped |-> FALSE, rc |-> SQLITE_OK]
NoSr == [s |-> 0, steps |-> 0, produced |-> <<>>, seen |-> <<>>]
NoLast == [op |-> "none", target |-> 0, status |-> SQLITE_OK,
           diag |-> "not an error", err |-> Nil, ret |-> NilPtr,
           steps |-> 0, produced |-> <<>>, seen |-> <<>>,
           arg |-> "", afterOpen |-> FALSE, bufs |-> {}, held |-> FALSE]

\* the Database the goroutines share: the first one opened
TheDb == CHOOSE h \in Handles : \A g \in Handles : h <= g

NoAnswer == [status |-> SQLITE_OK, msg |-> "not an error"]
NoCall == [op |-> "none", a |-> NoAnswer, st |-> 0]
NoBuffer == [live |-> FALSE, data |-> <<>>]
NoParam == [kind |-> "null", own |-> TRUE, data |-> <<>>]
NoSent == [op |-> "none", val |-> <<>>, native |-> <<>>]
NoColumn == [live |-> FALSE, kind |-> "null", data |-> <<>>]
NoRcvd == [acc |-> "none", own |-> TRUE, data |-> <<>>, stored |-> <<>>]

\* no thread has called anything, nothing is bound and nothing was read
InitValues ==
  /\ tans = [t \in Threads |-> NoCall]
  /\ terr = [t \in Threads |-> Nil]
  /\ gobuf = <<>>
  /\ heap = NoBuffer
  /\ param = NoParam
  /\ sent = NoSent
  /\ col = NoColumn
  /\ rcvd = NoRcvd

\* a count of native calls on one handle, kept up to "more than one"
SatAdd(n, k) == IF n + k < 2 THEN n + k ELSE 2
SatInc(n) == SatAdd(n, 1)

Init ==
  /\ conn = [h \in Handles |-> NoConn]
  /\ stmt = [s \in StmtIds |-> NoStmt]
  /\ dbs = {}
  /\ sts = {}
  /\ closed = [db |-> {}, st |-> {}]
  /\ pc = "idle"
  /\ sr = NoSr
  /\ last = NoLast
  /\ hist = [closes |-> [h \in Handles |-> 0],
             finalizes |-> [s \in StmtIds |-> 0],
             usedReleased |-> FALSE,
             lateFinalize |-> FALSE,
             useAfterClose |-> FALSE,
             closeMisuse |-> FALSE]
  /\ lock = [h \in Handles |-> FALSE]
  /\ tpc = [t \in Threads |-> "off"]
  /\ tval = [t \in Threads |-> 0]
  /\ titer = [t \in Threads |-> 0]
  /\ counter = 0
  /\ InitValues

(* --------------------------- the native engine ------------------------ *)
ConnReleased(h) == conn[h].state = "closed"
StmtReleased(s) == stmt[s].state = "finalized"
OpenStmtsOf(h) == {s \in StmtIds : stmt[s].state = "open" /\ stmt[s].db = h}

\* whether the engine has a handle left to hand out
HandleLeft ==
  Cardinality({h \in Handles : conn[h].state # "none"})
    + Cardinality({s \in StmtIds : stmt[s].state # "none"}) < MaxHandles

\* the answers a call on a released handle can give (use after free)
Undefined == {SQLITE_OK, SQLITE_MISUSE}

\* every [status, msg] with msg a text the engine keeps for that status
Answers(statuses) ==
  UNION {{[status |-> st, msg |-> m] : m \in ErrStr(st)} : st \in statuses}

\* sqlite3_open(p, &db): the handle table after the call. On failure the
\* engine may or may not have handed back a handle (which nobody owns).
sqlite3_open(h, a, alloc) ==
  IF a.status = SQLITE_OK \/ alloc
  THEN [conn EXCEPT ![h] = [state |-> "open", errmsg |-> a.msg]]
  ELSE conn

\* sqlite3_close(db.db): refused with BUSY while statements of the
\* connection are not finalized, and then the handle stays open
sqlite3_close(h) ==
  IF ConnReleased(h) THEN Answers(Undefined)
  ELSE IF OpenStmtsOf(h) # {}
  THEN {[status |-> SQLITE_BUSY,
         msg |-> "unable to close due to unfinalized statements"]}
  ELSE Answers({SQLITE_OK})

\* the answers to SQL text: a syntax error for text the engine cannot
\* parse; for the rest success, a failure of the statement, or a busy file
Compiled(sql, ok) ==
  IF sql = "SELEC * FROM t"
  THEN {[status |-> SQLITE_ERROR, msg |-> "near SELEC: syntax error"]}
  ELSE Answers({SQLITE_ERROR, SQLITE_BUSY} \cup (IF ok THEN {SQLITE_OK} ELSE {}))

\* sqlite3_exec(db.db, cs, nil, nil, &err)
sqlite3_exec(h, sql) ==
  IF ConnReleased(h) THEN Answers(Undefined) ELSE Compiled(sql, TRUE)

\* sqlite3_prepare(db.db, cs, -1, &stmt, nil): OK needs a statement handle
sqlite3_prepare(h, sql) ==
  IF ConnReleased(h) THEN Answers({SQLITE_MISUSE})
  ELSE Compiled(sql, HandleLeft)

\* sqlite3_finalize(stmt.stmt): answers with the status of the statement's
\* last evaluation
sqlite3_finalize(s) ==
  IF StmtReleased(s) THEN Answers(Undefined)
  ELSE Answers({stmt[s].rc})

\* sqlite3_step(stmt.stmt): a row (while the statement has rows left), the
\* end of the rows, or an error; after either of these the statement
\* starts again from its first row
sqlite3_step(s) ==
  IF StmtReleased(s) THEN Answers({SQLITE_MISUSE, SQLITE_DONE})
  ELSE Answers({SQLITE_DONE, SQLITE_ERROR, SQLITE_BUSY}
               \cup (IF stmt[s].row < MaxRows THEN {SQLITE_ROW} ELSE {}))

\* the statement after sqlite3_step answered a
Stepped(s, a) ==
  IF StmtReleased(s) THEN stmt[s]
  ELSE [stmt[s] EXCEPT
          !.row = IF a.status = SQLITE_ROW THEN @ + 1 ELSE 0,
          !.done = (a.status = SQLITE_DONE),
          !.stepped = TRUE,
          !.rc = IF a.status \in {SQLITE_ROW, SQLITE_DONE}
                 THEN SQLITE_OK ELSE a.status]

\* sqlite3_bind_*(stmt.stmt, i, v): refused once the statement has been
\* stepped, and for an index that is not a parameter of the statement
sqlite3_bind(s, i) ==
  IF StmtReleased(s) THEN Answers(Undefined)
  ELSE IF stmt[s].stepped THEN Answers({SQLITE_MISUSE})
  ELSE IF i \notin ParamIdx THEN Answers({SQLITE_RANGE})
  ELSE Answers({SQLITE_OK})

\* the connection table after a call on (a statement of) connection h
\* answered a: the engine keeps the text of the last call
Noted(h, a) ==
  IF ConnReleased(h) THEN conn ELSE [conn EXCEPT ![h].errmsg = a.msg]

\* sqlite3_errmsg(db)
sqlite3_errmsg(c, h) == c[h].errmsg

(* ---------------------------- the Go layer ---------------------------- *)
\* the handle a successful open or prepare hands out: the lowest unused
FreshConn == CHOOSE h \in Handles :
               conn[h].state = "none" /\ \A g \in 1..(h - 1) : conn[g].state # "none"
FreshStmt == CHOOSE s \in StmtIds :
               stmt[s].state = "none" /\ \A g \in 1..(s - 1) : stmt[g].state # "none"

\* the transient native buffers a call has obtained when it returns, each
\* with the number of times it has been freed: the C copy of the argument
\* (C.CString, C.CBytes), freed by the deferred C.free, and the message
\* sqlite3_exec allocates into err when it fails, which Execute only copies
Buffers(op, s) ==
  CASE op = "NewDatabase" -> {<<"p", 1>>}
    [] op = "Execute" -> {<<"cs", 1>>} \cup (IF s # SQLITE_OK THEN {<<"err", 0>>} ELSE {})
    [] op = "NewStatement" -> {<<"cs", 1>>}
    [] op = "BindText" -> {<<"s", 1>>}
    [] op = "BindBlob" -> {<<"p", 1>>}
    [] OTHER -> {}

Done(op, target, a, err, ret, steps) ==
  [NoLast EXCEPT !.op = op, !.target = target, !.status = a.status,
                 !.diag = a.msg, !.err = err, !.ret = ret, !.steps = steps,
                 !.bufs = Buffers(op, a.status),
                 !.held = lock[TheDb]]

\* history: a native call was issued on each handle of the sets hs, ss
Used(hs, ss) ==
  hist.usedReleased \/ (\E h \in hs : ConnReleased(h)) \/ (\E s \in ss : StmtReleased(s))

\* history: the caller uses Database h, or Statement s, after its Close()
\* (a Statement also after the Close() of its Database)
AfterClose(hs, ss) ==
  \/ hs \cap closed.db # {}
  \/ ss \cap closed.st # {}
  \/ \E s \in ss : stmt[s].db \in closed.db

\* (mutant) NewDatabase hands out a Database whatever the status
NewDatabaseReturnAlways(s, h, path) ==
  [ret |-> h, err |-> IF s = SQLITE_OK THEN Nil ELSE OpenErrorf(path)]

\* NewDatabase: what it returns for status s of sqlite3_open
NewDatabaseReturn(s, h, path) ==
  IF s = SQLITE_OK THEN [ret |-> h, err |-> Nil]
  ELSE [ret |-> NilPtr, err |-> OpenErrorf(path)]

NewDatabase(path) ==
  /\ pc = "idle"
  /\ HandleLeft
  /\ \E a \in Answers({SQLITE_OK, SQLITE_CANTOPEN}), alloc \in BOOLEAN :
       LET h == FreshConn
           r == NewDatabaseReturn(a.status, h, path)
       IN /\ conn' = sqlite3_open(h, a, alloc)
          /\ dbs' = IF r.ret # NilPtr THEN dbs \cup {r.ret} ELSE dbs
          /\ last' = [Done("NewDatabase", h, a, r.err, r.ret, 0) EXCEPT !.arg = path]
  /\ UNCHANGED <<stmt, sts, closed, pc, sr, hist, lock, threads>>

\* (mutant) Database.Close issues sqlite3_close a second time
DatabaseCloseCallsTwice == 1 + 1

\* Database.Close: the native calls it issues on db.db
DatabaseCloseCalls == 1

DatabaseClose(h) ==
  /\ pc = "idle"
  /\ h \in dbs
  /\ hist.closes[h] < 2
  /\ \E a \in sqlite3_close(h) :
       /\ conn' = IF ConnReleased(h) THEN conn
                  ELSE IF a.status = SQLITE_OK
                       THEN [conn EXCEPT ![h].state = "closed", ![h].errmsg = a.msg]
                       ELSE [conn EXCEPT ![h].errmsg = a.msg]
       /\ last' = [Done("DatabaseClose", h, a, Nil, NilPtr, 0)
                   EXCEPT !.afterOpen = (last.op = "NewDatabase" /\ last.ret = h)]
       /\ hist' = [hist EXCEPT
                     !.closes[h] = SatAdd(@, DatabaseCloseCalls),
                     !.usedReleased = Used({h}, {}),
                     !.closeMisuse = @ \/ h \in closed.db]
  /\ closed' = [closed EXCEPT !.db = @ \cup {h}]
  /\ UNCHANGED <<stmt, dbs, sts, pc, sr, lock, threads>>

\* Execute: what it returns for status s of sqlite3_exec, which left the
\* text err in its out-parameter
ExecuteReturn(s, err) == IF s # SQLITE_OK THEN ErrorsNew(err) ELSE Nil

\* (mutant) Execute takes the Database's lock around its native call
ExecuteAutoLock(h, sql) ==
  /\ pc = "idle"
  /\ h \in dbs
  /\ ~lock[h]
  /\ \E a \in sqlite3_exec(h, sql) :
       /\ conn' = Noted(h, a)
       /\ last' = Done("Execute", h, a, ExecuteReturn(a.status, a.msg), NilPtr, 0)
  /\ hist' = [hist EXCEPT !.usedReleased = Used({h}, {}),
                          !.useAfterClose = @ \/ AfterClose({h}, {})]
  /\ UNCHANGED <<stmt, dbs, sts, closed, pc, sr, lock, threads>>

Execute(h, sql) ==
  /\ pc = "idle"
  /\ h \in dbs
  /\ \E a \in sqlite3_exec(h, sql) :
       /\ conn' = Noted(h, a)
       /\ last' = Done("Execute", h, a, ExecuteReturn(a.status, a.msg), NilPtr, 0)
  /\ hist' = [hist EXCEPT !.usedReleased = Used({h}, {}),
                          !.useAfterClose = @ \/ AfterClose({h}, {})]
  /\ UNCHANGED <<stmt, dbs, sts, closed, pc, sr, lock, threads>>

\* (mutant) NewStatement takes every status but SQLITE_ERROR for success
NewStatementReturnOnError(s, st, h, c) ==
  IF s = SQLITE_ERROR THEN [ret |-> NilPtr, err |-> ErrorsNew(sqlite3_errmsg(c, h))]
  ELSE [ret |-> st, err |-> Nil]

\* NewStatement: what it returns for status s of sqlite3_prepare, which
\* left the handle st in stmt
NewStatementReturn(s, st, h, c) ==
  IF s # SQLITE_OK THEN [ret |-> NilPtr, err |-> ErrorsNew(sqlite3_errmsg(c, h))]
  ELSE [ret |-> st, err |-> Nil]

NewStatement(h, sql) ==
  /\ pc = "idle"
  /\ h \in dbs
  /\ \E a \in sqlite3_prepare(h, sql) :
       LET st == IF a.status = SQLITE_OK THEN FreshStmt ELSE NilPtr
           c == Noted(h, a)
           r == NewStatementReturn(a.status, st, h, c)
       IN /\ conn' = c
          /\ stmt' = IF st # NilPtr
                     THEN [stmt EXCEPT ![st] = [NoStmt EXCEPT !.state = "open", !.db = h]]
                     ELSE stmt
          /\ sts' = IF r.ret # NilPtr THEN sts \cup {r.ret} ELSE sts
          /\ last' = Done("NewStatement", h, a, r.err, r.ret, 0)
  /\ hist' = [hist EXCEPT !.usedReleased = Used({h}, {}),
                          !.useAfterClose = @ \/ AfterClose({h}, {})]
  /\ UNCHANGED <<dbs, closed, pc, sr, lock, threads>>

\* (mutant) Statement.Close also closes the connection of the statement
StatementCloseAlsoClosesDb(s) == [st |-> {s}, db |-> {stmt[s].db}]

\* Statement.Close: the handles it releases
StatementCloseReleases(s) == [st |-> {s}, db |-> {}]

StatementClose(s) ==
  /\ pc = "idle"
  /\ s \in sts
  /\ hist.finalizes[s] < 2
  /\ LET rel == StatementCloseReleases(s)
         h == stmt[s].db
     IN \E a \in sqlite3_finalize(s) :
       /\ stmt' = [x \in StmtIds |->
                     IF x \in rel.st /\ stmt[x].state = "open"
                     THEN [NoStmt EXCEPT !.state = "finalized", !.db = stmt[x].db]
                     ELSE stmt[x]]
       /\ conn' = [x \in Handles |->
                     IF x \in rel.db /\ conn[x].state = "open"
                     THEN [conn[x] EXCEPT !.state = "closed"]
                     ELSE IF x = h THEN Noted(h, a)[x] ELSE conn[x]]
       /\ last' = Done("StatementClose", s, a, Nil, NilPtr, 0)
       /\ hist' = [hist EXCEPT
                     !.finalizes[s] = SatInc(@),
                     !.closes = [x \in Handles |->
                                   IF x \in rel.db THEN SatInc(hist.closes[x])
                                   ELSE hist.closes[x]],
                     !.usedReleased = Used(rel.db, rel.st),
                     !.lateFinalize = @ \/ ConnReleased(h),
                     !.closeMisuse = @ \/ s \in closed.st \/ h \in closed.db]
  /\ closed' = [closed EXCEPT !.st = @ \cup {s}]
  /\ UNCHANGED <<dbs, sts, pc, sr, lock, threads>>

\* (mutant) Step compares the status with SQLITE_OK
StepReturnNotOK(s, h, c) ==
  IF s # SQLITE_OK THEN ErrorsNew(sqlite3_errmsg(c, h)) ELSE Nil

\* Step: what it returns for status s of its sqlite3_step
StepReturn(s, h, c) ==
  IF s # SQLITE_DONE THEN ErrorsNew(sqlite3_errmsg(c, h)) ELSE Nil

Step(s) ==
  /\ pc = "idle"
  /\ s \in sts
  /\ LET h == stmt[s].db
     IN /\ \E a \in sqlite3_step(s) :
             LET c == Noted(h, a)
             IN /\ stmt' = [stmt EXCEPT ![s] = Stepped(s, a)]
                /\ conn' = c
                /\ last' = Done("Step", s, a, StepReturn(a.status, h, c), NilPtr, 1)
                /\ hist' = [hist EXCEPT
                     !.usedReleased = Used(IF a.status # SQLITE_DONE THEN {h} ELSE {}, {s}),
                     !.useAfterClose = @ \/ AfterClose({}, {s})]
  /\ UNCHANGED <<dbs, sts, closed, pc, sr, lock, threads>>

\* StepRows, entered
StepRows(s) ==
  /\ pc = "idle"
  /\ s \in sts
  /\ pc' = "step"
  /\ sr' = [NoSr EXCEPT !.s = s]
  /\ hist' = [hist EXCEPT !.useAfterClose = @ \/ AfterClose({}, {s})]
  /\ UNCHANGED <<conn, stmt, dbs, sts, closed, last, lock, threads>>

\* (mutant) StepRows steps on without calling back
StepRowsBranchNoCallback(s) == IF s = SQLITE_ROW THEN "step" ELSE "return"
\* (mutant) StepRows returns nil whatever ended the loop
StepRowsReturnNil(s) == Nil

\* StepRows: where the loop goes for status s of sqlite3_step
StepRowsBranch(s) == IF s = SQLITE_ROW THEN "cb" ELSE "return"
\* StepRows: what it returns for the status s that ended the loop
StepRowsReturn(s) == IF s # SQLITE_DONE THEN StepRowsError ELSE Nil

\* StepRows: one turn of the loop up to the callback or the return
StepRowsStep ==
  /\ pc = "step"
  /\ \E a \in sqlite3_step(sr.s) :
       LET st == Stepped(sr.s, a)
           to == StepRowsBranch(a.status)
           n == sr.steps + 1
           got == IF a.status = SQLITE_ROW THEN Append(sr.produced, st.row)
                  ELSE sr.produced
       IN /\ stmt' = [stmt EXCEPT ![sr.s] = st]
          /\ conn' = Noted(stmt[sr.s].db, a)
          /\ IF to = "return"
             THEN /\ pc' = "idle"
                  /\ sr' = NoSr
                  /\ last' = [Done("StepRows", sr.s, a, StepRowsReturn(a.status),
                                   NilPtr, n)
                              EXCEPT !.produced = got, !.seen = sr.seen]
             ELSE /\ pc' = to
                  /\ sr' = [sr EXCEPT !.steps = n, !.produced = got]
                  /\ last' = last
  /\ hist' = [hist EXCEPT !.usedReleased = Used({}, {sr.s})]
  /\ UNCHANGED <<dbs, sts, closed, lock, threads>>

\* StepRows: cb() runs and sees the row the statement is on
StepRowsCallback ==
  /\ pc = "cb"
  /\ sr' = [sr EXCEPT !.seen = Append(@, stmt[sr.s].row)]
  /\ pc' = "step"
  /\ UNCHANGED <<conn, stmt, dbs, sts, closed, last, hist, lock, threads>>

\* the five binders: each issues one sqlite3_bind_* and returns nothing
Bind(op, s, i) ==
  /\ pc = "idle"
  /\ s \in sts
  /\ \E a \in sqlite3_bind(s, i) :
       /\ conn' = Noted(stmt[s].db, a)
       /\ last' = Done(op, s, a, Nil, NilPtr, 0)
  /\ hist' = [hist EXCEPT !.usedReleased = Used({}, {s}),
                          !.useAfterClose = @ \/ AfterClose({}, {s})]
  /\ UNCHANGED <<stmt, dbs, sts, closed, pc, sr, lock, threads>>

BindInt(s, i) == Bind("BindInt", s, i)
BindInt64(s, i) == Bind("BindInt64", s, i)
BindDouble(s, i) == Bind("BindDouble", s, i)
BindText(s, i) == Bind("BindText", s, i)
BindBlob(s, i) == Bind("BindBlob", s, i)

Next ==
  \/ \E path \in Paths : NewDatabase(path)
  \/ \E h \in Handles : DatabaseClose(h)
  \/ \E h \in Handles, sql \in Sqls : Execute(h, sql)
  \/ \E h \in Handles, sql \in Sqls : NewStatement(h, sql)
  \/ \E s \in StmtIds : StatementClose(s)
  \/ \E s \in StmtIds : Step(s)
  \/ \E s \in StmtIds : StepRows(s)
  \/ StepRowsStep
  \/ StepRowsCallback
  \/ \E s \in StmtIds, i \in BindIdx : BindInt(s, i)
  \/ \E s \in StmtIds, i \in BindIdx : BindInt64(s, i)
  \/ \E s \in StmtIds, i \in BindIdx : BindDouble(s, i)
  \/ \E s \in StmtIds, i \in BindIdx : BindText(s, i)
  \/ \E s \in StmtIds, i \in BindIdx : BindBlob(s, i)

Spec == Init /\ [][Next]_vars

(* ------------------- threads sharing one Database --------------------- *)
\* Each thread runs NIter times: db.Lock(); read the counter; write it back
\* incremented; db.Unlock().
InitLock ==
  /\ conn = [h \in Handles |-> IF h = TheDb THEN [NoConn EXCEPT !.state = "open"]
                               ELSE NoConn]
  /\ stmt = [s \in StmtIds |-> NoStmt]
  /\ dbs = {TheDb}
  /\ sts = {}
  /\ closed = [db |-> {}, st |-> {}]
  /\ pc = "idle"
  /\ sr = NoSr
  /\ last = NoLast
  /\ hist = [closes |-> [h \in Handles |-> 0],
             finalizes |-> [s \in StmtIds |-> 0],
             usedReleased |-> FALSE,
             lateFinalize |-> FALSE,
             useAfterClose |-> FALSE,
             closeMisuse |-> FALSE]
  /\ lock = [h \in Handles |-> FALSE]
  /\ tpc = [t \in Threads |-> "lock"]
  /\ tval = [t \in Threads |-> 0]
  /\ titer = [t \in Threads |-> 0]
  /\ counter = 0
  /\ InitValues

\* (mutant) Lock returns without waiting for the mutex
MutexNeverWaits(m) == TRUE

\* db.lock.Lock() returns only once it has found the mutex unlocked
MutexFree(m) == ~m

\* Database.Lock, called at the start of a sequence ("lock") or again
\* inside one ("relock")
Lock(t) ==
  /\ tpc[t] \in {"lock", "relock"}
  /\ MutexFree(lock[TheDb])
  /\ lock' = [lock EXCEPT ![TheDb] = TRUE]
  /\ tpc' = [tpc EXCEPT ![t] = IF tpc[t] = "lock" THEN "read" ELSE "nested"]
  /\ UNCHANGED <<layer, tval, titer, counter, tans, terr, values>>

\* the thread's native calls that read the counter
ReadCounter(t) ==
  /\ tpc[t] = "read"
  /\ tval' = [tval EXCEPT ![t] = counter]
  /\ tpc' = [tpc EXCEPT ![t] = "write"]
  /\ UNCHANGED <<layer, lock, titer, counter, tans, terr, values>>

\* the thread's native calls that write the counter
WriteCounter(t) ==
  /\ tpc[t] = "write"
  /\ counter' = tval[t] + 1
  /\ tpc' = [tpc EXCEPT ![t] = "unlock"]
  /\ UNCHANGED <<layer, lock, tval, titer, tans, terr, values>>

\* Database.Unlock
Unlock(t) ==
  /\ tpc[t] = "unlock"
  /\ lock' = [lock EXCEPT ![TheDb] = FALSE]
  /\ titer' = [titer EXCEPT ![t] = @ + 1]
  /\ tpc' = [tpc EXCEPT ![t] = IF titer[t] + 1 < NIter THEN "lock" ELSE "done"]
  /\ tans' = [tans EXCEPT ![t] = NoCall]
  /\ terr' = [terr EXCEPT ![t] = Nil]
  /\ UNCHANGED <<layer, tval, counter, values>>

NextLock ==
  \/ \E t \in Threads : Lock(t)
  \/ \E t \in Threads : ReadCounter(t)
  \/ \E t \in Threads : WriteCounter(t)
  \/ \E t \in Threads : Unlock(t)

SpecLock == InitLock /\ [][NextLock]_vars

(* ------------------- Lock() called again by the holder ---------------- *)
\* a thread inside its sequence comes to call db.Lock() once more: from the
\* callback of the StepRows that reads the counter, or before the write
Reenter(t) ==
  /\ tpc[t] \in {"read", "write"}
  /\ tpc' = [tpc EXCEPT ![t] = "relock"]
  /\ UNCHANGED <<layer, lock, tval, titer, counter, tans, terr, values>>

NextReentrant ==
  \/ NextLock
  \/ \E t \in Threads : Reenter(t)

SpecReentrant == InitLock /\ [][NextReentrant]_vars

(* ------------- Step and NewStatement of threads, call by call --------- *)
\* Each thread runs NIter times: db.Lock(); a Step of a Statement of the
\* shared Database, or a NewStatement on it; db.Unlock(). Step and
\* NewStatement issue their native call, and then read the diagnostic from
\* the connection with sqlite3_errmsg when they return.
FirstStmt == CHOOSE s \in StmtIds : \A x \in StmtIds : s <= x

InitDiag ==
  /\ conn = [h \in Handles |-> IF h = TheDb THEN [NoConn EXCEPT !.state = "open"]
                               ELSE NoConn]
  /\ stmt = [s \in StmtIds |-> IF s = FirstStmt
                                THEN [NoStmt EXCEPT !.state = "open", !.db = TheDb]
                                ELSE NoStmt]
  /\ dbs = {TheDb}
  /\ sts = {FirstStmt}
  /\ closed = [db |-> {}, st |-> {}]
  /\ pc = "idle"
  /\ sr = NoSr
  /\ last = NoLast
  /\ hist = [closes |-> [h \in Handles |-> 0],
             finalizes |-> [s \in StmtIds |-> 0],
             usedReleased |-> FALSE,
             lateFinalize |-> FALSE,
             useAfterClose |-> FALSE,
             closeMisuse |-> FALSE]
  /\ lock = [h \in Handles |-> FALSE]
  /\ tpc = [t \in Threads |-> "lock"]
  /\ tval = [t \in Threads |-> 0]
  /\ titer = [t \in Threads |-> 0]
  /\ counter = 0
  /\ InitValues

\* Step, up to the return of C.sqlite3_step(stmt.stmt)
StepCall(t, s) ==
  /\ tpc[t] = "read"
  /\ s \in sts
  /\ \E a \in sqlite3_step(s) :
       /\ stmt' = [stmt EXCEPT ![s] = Stepped(s, a)]
       /\ conn' = Noted(stmt[s].db, a)
       /\ tans' = [tans EXCEPT ![t] = [op |-> "Step", a |-> a, st |-> s]]
  /\ tpc' = [tpc EXCEPT ![t] = "return"]
  /\ UNCHANGED <<dbs, sts, closed, pc, sr, last, hist, lock,
                 tval, titer, counter, terr, values>>

\* NewStatement, up to the return of C.sqlite3_prepare(db.db, ...)
NewStatementCall(t, sql) ==
  /\ tpc[t] = "read"
  /\ \E a \in sqlite3_prepare(TheDb, sql) :
       LET st == IF a.status = SQLITE_OK THEN FreshStmt ELSE NilPtr
       IN /\ conn' = Noted(TheDb, a)
          /\ stmt' = IF st # NilPtr
                     THEN [stmt EXCEPT ![st] = [NoStmt EXCEPT !.state = "open", !.db = TheDb]]
                     ELSE stmt
          /\ tans' = [tans EXCEPT ![t] = [op |-> "NewStatement", a |-> a, st |-> st]]
  /\ tpc' = [tpc EXCEPT ![t] = "return"]
  /\ UNCHANGED <<dbs, sts, closed, pc, sr, last, hist, lock,
                 tval, titer, counter, terr, values>>

\* the rest of Step or NewStatement: the comparison of the status, and on
\* failure C.sqlite3_errmsg on the connection as it is by now
Return(t) ==
  /\ tpc[t] = "return"
  /\ LET c == tans[t]
         r == IF c.op = "Step"
              THEN [ret |-> NilPtr, err |-> StepReturn(c.a.status, TheDb, conn)]
              ELSE NewStatementReturn(c.a.status, c.st, TheDb, conn)
     IN /\ terr' = [terr EXCEPT ![t] = r.err]
        /\ sts' = IF r.ret # NilPtr THEN sts \cup {r.ret} ELSE sts
  /\ tpc' = [tpc EXCEPT ![t] = "unlock"]
  /\ UNCHANGED <<conn, stmt, dbs, closed, pc, sr, last, hist, lock,
                 tval, titer, counter, tans, values>>

NextDiag ==
  \/ \E t \in Threads : Lock(t)
  \/ \E t \in Threads, s \in StmtIds : StepCall(t, s)
  \/ \E t \in Threads, sql \in Sqls : NewStatementCall(t, sql)
  \/ \E t \in Threads : Return(t)
  \/ \E t \in Threads : Unlock(t)

SpecDiag == InitDiag /\ [][NextDiag]_vars

(* -------------------- the values bound and read back ------------------ *)
\* Integers are sequences of 16-bit limbs, lowest first, in two's
\* complement; texts and blobs are sequences of bytes.
Limb == 2 ^ 16
\* the limbs of C.int (32 bits), of C.sqlite3_int64 and Go's int64, and of
\* Go's int on a 64-bit host
CIntLimbs == 2
Int64Limbs == 4
GoIntLimbs == 4

Negative(v) == v[Len(v)] >= Limb \div 2

\* an integer conversion of Go or C to a type of n limbs: the low limbs
\* are kept, and a wider type is filled with the sign
Convert(v, n) ==
  [k \in 1..n |-> IF k <= Len(v) THEN v[k]
                  ELSE IF Negative(v) THEN Limb - 1 ELSE 0]

\* values of Go's int: 0, 42, -1, 1<<31 - 1, 1<<31, -(1<<31), 1<<63 - 1,
\* -(1<<63)
Ints ==
  {<<0, 0, 0, 0>>, <<42, 0, 0, 0>>,
   <<Limb - 1, Limb - 1, Limb - 1, Limb - 1>>,
   <<Limb - 1, Limb \div 2 - 1, 0, 0>>,
   <<0, Limb \div 2, 0, 0>>,
   <<0, Limb \div 2, Limb - 1, Limb - 1>>,
   <<Limb - 1, Limb - 1, Limb - 1, Limb \div 2 - 1>>,
   <<0, 0, 0, Limb \div 2>>}

\* Go strings: "", "a", "a\x00b", "\x00"
Texts == {<<>>, <<97>>, <<97, 0, 98>>, <<0>>}
\* byte slices, with zero bytes and of length zero
Blobs == {<<>>, <<1>>, <<1, 0, 2>>, <<0, 0>>}

\* C.CString(s): a malloc'ed copy of the bytes of s and a terminating NUL
CString(s) == Append(s, 0)
\* C.CBytes(b): a malloc'ed copy of the bytes of b
CBytes(b) == [k \in 1..Len(b) |-> b[k]]
\* the length of the C string at p: the bytes before its first NUL
strlen(p) == CHOOSE n \in 0..(Len(p) - 1) : p[n + 1] = 0 /\ \A k \in 1..n : p[k] # 0
\* C.GoString(p): a copy of the C string at p
GoString(p) == SubSeq(p, 1, strlen(p))
\* C.GoBytes(p, n): a copy of the n bytes at p
GoBytes(p, n) == SubSeq(p, 1, n)

\* what freed or overwritten native memory may read as
Garbage == Texts \cup Blobs

\* the bytes at the layer's native buffer, n of them
Deref(n) == IF heap.live THEN {SubSeq(heap.data, 1, n)} ELSE Garbage

\* (mutant) the binders pass SQLITE_STATIC: the engine keeps the pointer
sqlite3_const_static == "static"

\* the destructor BindText and BindBlob pass: SQLITE_TRANSIENT
sqlite3_const_transient == "transient"

\* sqlite3_bind_text / sqlite3_bind_blob(stmt, i, p, n, dtor) on the buffer
\* with bytes p: n < 0 stands for "up to the first NUL"; with
\* SQLITE_TRANSIENT the engine copies the bytes before it returns
sqlite3_bind_bytes(kind, p, n, dtor) ==
  LET len == IF n < 0 THEN strlen(p) ELSE n
  IN IF dtor = "transient"
     THEN [kind |-> kind, own |-> TRUE, data |-> SubSeq(p, 1, len)]
     ELSE [kind |-> kind, own |-> FALSE, data |-> [k \in 1..len |-> 0]]

\* sqlite3_bind_int / sqlite3_bind_int64: the engine stores 64 bits
sqlite3_bind_integer(v) ==
  [kind |-> "int", own |-> TRUE, data |-> Convert(v, Int64Limbs)]

\* the values parameter 1 may be read as when the statement runs
ParamValues ==
  IF param.own THEN {param.data} ELSE Deref(Len(param.data))

\* a binder that passes the integer x to the engine
BindInteger(op, s, i, val, x) ==
  /\ s \in sts
  /\ stmt[s].state = "open"
  /\ \E a \in sqlite3_bind(s, i) :
       /\ conn' = Noted(stmt[s].db, a)
       /\ IF a.status = SQLITE_OK
          THEN /\ param' = sqlite3_bind_integer(x)
               /\ sent' = [op |-> op, val |-> val, native |-> x]
          ELSE UNCHANGED <<param, sent>>
  /\ UNCHANGED <<stmt, dbs, sts, closed, pc, sr, last, hist, lock,
                 tpc, tval, titer, counter, tans, terr, gobuf, heap, col, rcvd>>

\* BindInt(i, val): C.sqlite3_bind_int(stmt.stmt, C.int(i), C.int(val))
BindIntValue(s, i, val) == BindInteger("BindInt", s, i, val, Convert(val, CIntLimbs))

\* BindInt64(i, val): C.sqlite3_bind_int64(..., C.sqlite3_int64(val))
BindInt64Value(s, i, val) == BindInteger("BindInt64", s, i, val, Convert(val, Int64Limbs))

\* a binder that passes the native buffer with bytes p, and the length n,
\* to the engine and frees the buffer when it returns (defer C.free)
BindBytes(op, kind, s, i, val, p, n) ==
  /\ s \in sts
  /\ stmt[s].state = "open"
  /\ \E a \in sqlite3_bind(s, i) :
       /\ conn' = Noted(stmt[s].db, a)
       /\ IF a.status = SQLITE_OK
          THEN /\ param' = sqlite3_bind_bytes(kind, p, n, sqlite3_const_transient)
               /\ sent' = [op |-> op, val |-> val,
                           native |-> SubSeq(p, 1, IF n < 0 THEN strlen(p) ELSE n)]
          ELSE UNCHANGED <<param, sent>>
  /\ heap' = [live |-> FALSE, data |-> p]
  /\ gobuf' = IF kind = "blob" THEN val ELSE gobuf
  /\ UNCHANGED <<stmt, dbs, sts, closed, pc, sr, last, hist, lock,
                 tpc, tval, titer, counter, tans, terr, col, rcvd>>

\* BindText(i, val): s := C.CString(val); sqlite3_bind_text(..., s, -1, ...)
BindTextValue(s, i, val) == BindBytes("BindText", "text", s, i, val, CString(val), -1)

\* BindBlob(i, b): p := C.CBytes(b); sqlite3_bind_blob(..., p, len(b), ...)
BindBlobValue(s, i, b) == BindBytes("BindBlob", "blob", s, i, b, CBytes(b), Len(b))

\* the caller overwrites the slice it passed to BindBlob
Overwrite(b) ==
  /\ sent.op = "BindBlob"
  /\ gobuf = sent.val
  /\ b # gobuf
  /\ gobuf' = b
  /\ UNCHANGED <<layer, lock, tpc, tval, titer, counter, tans, terr,
                 heap, param, sent, col, rcvd>>

\* Step on the statement, whose column 0 is its parameter 1 ("SELECT ?1"):
\* on a row the engine holds the column in a buffer of its own, which the
\* next step or the finalize gives up
StepValue(s) ==
  /\ s \in sts
  /\ stmt[s].state = "open"
  /\ \E a \in sqlite3_step(s) :
       /\ stmt' = [stmt EXCEPT ![s] = Stepped(s, a)]
       /\ conn' = Noted(stmt[s].db, a)
       /\ IF a.status = SQLITE_ROW
          THEN \E d \in ParamValues :
                 col' = [live |-> TRUE, kind |-> param.kind, data |-> d]
          ELSE col' = NoColumn
  /\ UNCHANGED <<dbs, sts, closed, pc, sr, last, hist, lock,
                 tpc, tval, titer, counter, tans, terr, gobuf, heap, param, sent, rcvd>>

\* Statement.Close
CloseValue(s) ==
  /\ s \in sts
  /\ stmt[s].state = "open"
  /\ \E a \in sqlite3_finalize(s) :
       /\ stmt' = [stmt EXCEPT ![s] = [NoStmt EXCEPT !.state = "finalized", !.db = stmt[s].db]]
       /\ conn' = Noted(stmt[s].db, a)
  /\ col' = NoColumn
  /\ UNCHANGED <<dbs, sts, closed, pc, sr, last, hist, lock,
                 tpc, tval, titer, counter, tans, terr, gobuf, heap, param, sent, rcvd>>

\* a column accessor on the row the statement is on returns r
ColumnValue(acc, kind, s, r) ==
  /\ s \in sts
  /\ stmt[s].state = "open"
  /\ col.live
  /\ col.kind = kind
  /\ rcvd' = [acc |-> acc, own |-> r.own, data |-> r.data, stored |-> col.data]
  /\ UNCHANGED <<layer, lock, tpc, tval, titer, counter, tans, terr,
                 gobuf, heap, param, sent, col>>

\* ColumnInt: int(C.sqlite3_column_int(...)), the engine's value as C.int
ColumnIntValue(s) ==
  ColumnValue("ColumnInt", "int", s,
              [own |-> TRUE, data |-> Convert(Convert(col.data, CIntLimbs), GoIntLimbs)])

\* ColumnInt64: int64(C.sqlite3_column_int64(...))
ColumnInt64Value(s) ==
  ColumnValue("ColumnInt64", "int", s,
              [own |-> TRUE, data |-> Convert(Convert(col.data, Int64Limbs), Int64Limbs)])

\* ColumnText: C.GoString of the NUL-terminated text the engine hands out
ColumnTextValue(s) ==
  ColumnValue("ColumnText", "text", s,
              [own |-> TRUE, data |-> GoString(Append(col.data, 0))])

\* (mutant) ColumnBlob returns a slice over the engine's buffer
ColumnBlobAlias(p, n) == [own |-> FALSE, data |-> <<>>]

\* ColumnBlob: C.GoBytes(p, C.sqlite3_column_bytes(...)) of the engine's
\* buffer p, a slice with memory of its own
ColumnBlobReturn(p, n) == [own |-> TRUE, data |-> GoBytes(p, n)]

ColumnBlobValue(s) ==
  ColumnValue("ColumnBlob", "blob", s, ColumnBlobReturn(col.data, Len(col.data)))

\* the bytes the caller may find in what the last accessor returned
RcvdValues ==
  IF rcvd.own THEN {rcvd.data}
  ELSE IF col.live THEN {col.data} ELSE Garbage

NextValues ==
  \/ \E s \in StmtIds, i \in BindIdx, v \in Ints : BindIntValue(s, i, v)
  \/ \E s \in StmtIds, i \in BindIdx, v \in Ints : BindInt64Value(s, i, v)
  \/ \E s \in StmtIds, i \in BindIdx, v \in Texts : BindTextValue(s, i, v)
  \/ \E s \in StmtIds, i \in BindIdx, b \in Blobs : BindBlobValue(s, i, b)
  \/ \E b \in Blobs : Overwrite(b)
  \/ \E s \in StmtIds : StepValue(s)
  \/ \E s \in StmtIds : CloseValue(s)
  \/ \E s \in StmtIds : ColumnIntValue(s)
  \/ \E s \in StmtIds : ColumnInt64Value(s)
  \/ \E s \in StmtIds : ColumnTextValue(s)
  \/ \E s \in StmtIds : ColumnBlobValue(s)

SpecValues == InitDiag /\ [][NextValues]_vars

(* --------------- the layer's operations beside a lock holder ---------- *)
\* One caller runs the operations of the layer, and closes a handle only
\* after its last use, while another goroutine calls Lock() and Unlock() on
\* the Database they share.
Accessors == {"ColumnInt", "ColumnInt64", "ColumnDouble", "ColumnText", "ColumnBlob"}

\* the five column accessors: each issues sqlite3_column_* on the statement
\* and returns what the engine hands back
Column(op, s, i) ==
  /\ pc = "idle"
  /\ s \in sts
  /\ last' = [Done(op, s, NoAnswer, Nil, NilPtr, 0) EXCEPT !.arg = "column"]
  /\ hist' = [hist EXCEPT !.usedReleased = Used({}, {s}),
                          !.useAfterClose = @ \/ AfterClose({}, {s})]
  /\ UNCHANGED <<conn, stmt, dbs, sts, closed, pc, sr, lock, threads>>

\* Database.Lock, called by the other goroutine
HolderLock(h) ==
  /\ h \in dbs
  /\ h = TheDb
  /\ MutexFree(lock[h])
  /\ lock' = [lock EXCEPT ![h] = TRUE]
  /\ UNCHANGED <<layer, threads>>

\* Database.Unlock, called by the other goroutine
HolderUnlock(h) ==
  /\ h \in dbs
  /\ h = TheDb
  /\ lock[h]
  /\ lock' = [lock EXCEPT ![h] = FALSE]
  /\ UNCHANGED <<layer, threads>>

\* the operations of the layer other than Lock and Unlock
Operation ==
  \/ Next
  \/ \E op \in Accessors, s \in StmtIds, i \in ParamIdx : Column(op, s, i)

NextFrame ==
  \/ Operation /\ ~hist'.useAfterClose /\ ~hist'.closeMisuse
  \/ \E h \in Handles : HolderLock(h)
  \/ \E h \in Handles : HolderUnlock(h)

SpecFrame == Init /\ [][NextFrame]_vars

(* ------------------------------ properties ---------------------------- *)
Consecutive(rows) == \A i \in 1..(Len(rows) - 1) : rows[i + 1] = rows[i] + 1
Disciplined == ~hist.useAfterClose /\ ~hist.closeMisuse

\* C1: StepRows calls back exactly once per row the engine yields, in
\* result order: before each native step every row yielded so far has been
\* seen by the callback, a callback runs on the row the preceding step
\* yielded, and when the engine then reports DONE StepRows returns nil
\* having called back once per row.
C1_StepRowsOncePerRow ==
  /\ pc = "step" => sr.seen = sr.produced
  /\ pc = "cb" => sr.produced = Append(sr.seen, stmt[sr.s].row)
  /\ Consecutive(sr.seen) /\ Consecutive(last.seen)
  /\ (last.op = "StepRows" /\ last.status = SQLITE_DONE) =>
       /\ last.err = Nil
       /\ last.seen = last.produced
       /\ last.steps = Len(last.produced) + 1
C1_Witness ==
  /\ pc = "idle" /\ last.op = "StepRows" /\ last.status = SQLITE_DONE
  /\ last.err = Nil /\ last.seen = <<1, 2>>

\* C2: when every thread brackets its sequence of native calls with
\* Lock()/Unlock(), at most one thread is inside a sequence, and once the
\* NThreads threads have each run NIter sequences the counter is
\* NThreads * NIter.
C2_LockedSequencesDoNotInterleave ==
  /\ Cardinality({t \in Threads : tpc[t] \in {"read", "write", "unlock"}}) <= 1
  /\ (\A t \in Threads : tpc[t] = "done") => counter = NThreads * NIter
C2_Witness ==
  /\ \A t \in Threads : tpc[t] = "done" /\ titer[t] = NIter
  /\ counter = NThreads * NIter

\* C3 as claimed: no native call is ever issued on a released handle.
C3_NoCallOnReleasedHandle == ~hist.usedReleased
\* C3 amended: as long as the caller calls nothing on a Database after its
\* Close(), nor on a Statement after its Close() or the Close() of its
\* Database, no native call is issued on a released handle.
C3_DisciplinedNoCallOnReleasedHandle == Disciplined => ~hist.usedReleased
C3_Witness ==
  /\ Disciplined
  /\ \E h \in Handles : conn[h].state = "closed" /\ h \in closed.db
  /\ \E s \in StmtIds : stmt[s].state = "finalized" /\ s \in closed.st

\* C4 as claimed: over any sequence of operations sqlite3_close is issued
\* at most once per connection handle, sqlite3_finalize at most once per
\* statement handle, and no statement handle is released after the handle
\* of its connection.
C4_ReleasedAtMostOnce ==
  /\ \A h \in Handles : hist.closes[h] <= 1
  /\ \A s \in StmtIds : hist.finalizes[s] <= 1
  /\ ~hist.lateFinalize
\* C4 amended: the same, for a caller that calls Close() at most once on
\* each Database and Statement and on no Statement after the Close() of its
\* Database.
C4_DisciplinedReleasedAtMostOnce == ~hist.closeMisuse => C4_ReleasedAtMostOnce
C4_Witness ==
  /\ ~hist.closeMisuse
  /\ \E h \in Handles : hist.closes[h] = 1 /\ conn[h].state = "closed"
  /\ \E s \in StmtIds : hist.finalizes[s] = 1

\* C5: Step issues one sqlite3_step; it returns nil exactly when that call
\* answered DONE, and for any other answer (ROW included) an error whose
\* text is the engine's message for that call.
C5_StepSucceedsOnlyOnDone ==
  last.op = "Step" =>
    /\ last.steps = 1
    /\ last.err = Nil <=> last.status = SQLITE_DONE
    /\ (last.status # SQLITE_DONE /\ ~hist.usedReleased) =>
         last.err = ErrorsNew(last.diag)
C5_Witness ==
  /\ last.op = "Step" /\ last.status = SQLITE_ROW /\ ~hist.usedReleased
  /\ last.err = ErrorsNew("another row available")

\* C6: StepRows ends at the first sqlite3_step that does not answer ROW:
\* nil for DONE and an error for anything else, with no callback for that
\* step (one callback per earlier step) and no step after it.
C6_StepRowsStopsAtFirstNonRow ==
  /\ pc \in {"step", "cb"} => sr.steps = Len(sr.produced)
  /\ last.op = "StepRows" =>
       /\ last.status # SQLITE_ROW
       /\ last.err = Nil <=> last.status = SQLITE_DONE
       /\ last.steps = Len(last.produced) + 1
       /\ Len(last.seen) = last.steps - 1
       /\ pc = "idle" => sr = NoSr
C6_Witness ==
  /\ pc = "idle" /\ last.op = "StepRows" /\ last.status = SQLITE_BUSY
  /\ last.err # Nil /\ last.steps = 2 /\ Len(last.seen) = 1

\* C7 as claimed: every error returned by Execute, NewStatement, Step and
\* StepRows carries the engine's message for the failing native call.
C7_ErrorsCarryDiagnostic ==
  (/\ last.op \in {"Execute", "NewStatement", "Step", "StepRows"}
   /\ last.err # Nil
   /\ ~hist.usedReleased) => last.err = ErrorsNew(last.diag)

\* C8 as claimed: whenever the native call of an operation answers a
\* non-success status, the operation returns an error.
Success(op) == IF op \in {"Step", "StepRows"} THEN SQLITE_DONE ELSE SQLITE_OK
C8_NonSuccessSurfaced ==
  (last.op # "none" /\ last.status # Success(last.op) /\ ~hist.usedReleased)
    => last.err # Nil

\* C9: a failed prepare returns an error and no Statement and leaves no
\* statement handle without a Statement that owns it; a successful one
\* returns one Statement, on a new handle, referring to the Database it was
\* prepared on.
C9_PrepareFailureAllocatesNothing ==
  /\ sts = {s \in StmtIds : stmt[s].state # "none"}
  /\ last.op = "NewStatement" =>
       IF last.status # SQLITE_OK
       THEN last.ret = NilPtr /\ last.err # Nil
       ELSE last.err = Nil /\ last.ret \in sts /\ stmt[last.ret].db = last.target
C9_Witness ==
  /\ last.op = "NewStatement" /\ last.status = SQLITE_ERROR
  /\ last.err = ErrorsNew("near SELEC: syntax error")
  /\ last.ret = NilPtr /\ sts = {}

\* C10: NewDatabase returns a Database and nil exactly when sqlite3_open
\* answered OK, and otherwise no Database and an error whose text holds the
\* path; Close() right after a successful NewDatabase releases the handle
\* with status OK and without an error.
C10_OpenReturnsDatabaseIffOK ==
  /\ last.op = "NewDatabase" =>
       /\ last.status = SQLITE_OK <=> (last.ret # NilPtr /\ last.err = Nil)
       /\ last.status = SQLITE_OK =>
            last.ret \in dbs /\ conn[last.ret].state = "open"
       /\ last.status # SQLITE_OK =>
            last.ret = NilPtr /\ \E i \in DOMAIN last.err : last.err[i] = last.arg
  /\ (last.op = "DatabaseClose" /\ last.afterOpen) =>
       /\ last.err = Nil
       /\ last.status = SQLITE_OK
       /\ conn[last.target].state = "closed"
C10_Witness ==
  /\ last.op = "DatabaseClose" /\ last.afterOpen
  /\ last.status = SQLITE_OK /\ last.err = Nil

\* C17 as claimed: when NewDatabase, Execute, NewStatement, BindText or
\* BindBlob returns, every transient native buffer the call obtained has
\* been freed exactly once.
C17_TransientBuffersFreedOnce ==
  last.op \in {"NewDatabase", "Execute", "NewStatement", "BindText", "BindBlob"}
    => /\ last.bufs # {}
       /\ \A b \in last.bufs : b[2] = 1

\* C18 as claimed: when NewDatabase fails, the handle sqlite3_open handed
\* back with the failure has been released when NewDatabase returns.
C18_FailedOpenLeavesNoHandle ==
  (last.op = "NewDatabase" /\ last.status # SQLITE_OK)
    => conn[last.target].state # "open"

\* what the caller can call in a state completes there: nothing waits
NeverBlocks ==
  /\ pc = "step" => ENABLED StepRowsStep
  /\ pc = "cb" => ENABLED StepRowsCallback
  /\ (pc = "idle" /\ HandleLeft) => \A path \in Paths : ENABLED NewDatabase(path)
  /\ pc = "idle" =>
       /\ \A h \in dbs :
            /\ hist.closes[h] < 2 => ENABLED DatabaseClose(h)
            /\ \A sql \in Sqls : ENABLED Execute(h, sql) /\ ENABLED NewStatement(h, sql)
       /\ \A s \in sts :
            /\ hist.finalizes[s] < 2 => ENABLED StatementClose(s)
            /\ ENABLED Step(s) /\ ENABLED StepRows(s)
            /\ \A i \in BindIdx :
                 /\ ENABLED BindInt(s, i) /\ ENABLED BindInt64(s, i)
                 /\ ENABLED BindDouble(s, i)
                 /\ ENABLED BindText(s, i) /\ ENABLED BindBlob(s, i)
            /\ \A op \in Accessors, i \in ParamIdx : ENABLED Column(op, s, i)

\* C15: no operation of the layer other than Lock and Unlock changes the
\* lock of any Database, and while another goroutine holds the lock every
\* operation the caller can call completes without waiting for it.
C15_OperationsLeaveLockAlone ==
  /\ [][lock' # lock => ~Operation]_vars
  /\ [](lock[TheDb] => NeverBlocks)

\* an Execute succeeded on a Database whose lock another goroutine held
C15_Witness ==
  /\ last.op = "Execute"
  /\ last.status = SQLITE_OK
  /\ last.target = TheDb
  /\ last.held

\* a thread is inside Lock() called while it already held the lock
Reentered == \E t \in Threads : tpc[t] = "relock"

\* C16: the lock is not reentrant. Once a thread that holds the lock calls
\* Lock() again without an Unlock() in between, the lock stays held, that
\* thread never returns from its Lock(), and no thread that calls Lock()
\* from then on returns from it either.
C16_ReentrantLockBlocksForever ==
  /\ [](Reentered => /\ lock[TheDb]
                     /\ \A t \in Threads : ~ENABLED Lock(t))
  /\ [][Reentered => \A t \in Threads :
                       tpc[t] \in {"lock", "relock"} => tpc'[t] = tpc[t]]_vars

\* one thread is inside its second Lock() while another thread, which has
\* run a whole sequence before, is inside Lock() as well
C16_Witness ==
  \E t, u \in Threads :
    /\ tpc[t] = "relock"
    /\ tpc[u] = "lock"
    /\ titer[u] > 0

\* C19: when every thread holds the Database's lock from before its Step or
\* NewStatement until after it, the text of the error the operation
\* returns is the text of the operation's own failing native call, not
\* that of a call another thread or another Statement made on the
\* connection.
C19_DiagnosticIsOwnUnderLock ==
  \A t \in Threads :
    (tpc[t] = "unlock" /\ terr[t] # Nil) => terr[t] = ErrorsNew(tans[t].a.msg)

\* a Step has returned its own failure's text on a connection on which
\* another thread's call left another text before, and a thread waits
C19_Witness ==
  \E t, u \in Threads :
    /\ tpc[t] = "unlock"
    /\ tans[t].op = "Step"
    /\ terr[t] = ErrorsNew("no such table: t")
    /\ titer[t] = 0
    /\ titer[u] > 0
    /\ tpc[u] = "lock"

\* C11 as claimed: what ColumnInt returns for a row of a statement whose
\* parameter was bound with BindInt is the int that was bound, and what
\* ColumnInt64 returns after BindInt64 is the int64 that was bound.
C11_IntegerRoundTrip ==
  /\ (rcvd.acc = "ColumnInt" /\ sent.op = "BindInt") => rcvd.data = sent.val
  /\ (rcvd.acc = "ColumnInt64" /\ sent.op = "BindInt64") => rcvd.data = sent.val

\* C12 as claimed: what ColumnText returns after BindText is the string
\* that was bound, and what ColumnBlob returns after BindBlob is the byte
\* sequence that was bound, whatever bytes they hold.
C12_TextBlobRoundTrip ==
  /\ (rcvd.acc = "ColumnText" /\ sent.op = "BindText") => rcvd.data = sent.val
  /\ (rcvd.acc = "ColumnBlob" /\ sent.op = "BindBlob") => rcvd.data = sent.val

\* C13: once BindText or BindBlob has returned, the parameter reads as the
\* bytes the engine was handed during the call, and a row of the statement
\* holds those bytes, although the layer's native buffer has been freed
\* and whatever the caller has done to its own buffer since.
C13_EngineOwnsBoundCopy ==
  sent.op \in {"BindText", "BindBlob"} =>
    /\ ParamValues = {sent.native}
    /\ col.live => col.data = sent.native

\* a row holds the blob that was bound, after the native buffer was freed
\* and the caller overwrote the slice it had passed
C13_Witness ==
  /\ sent.op = "BindBlob"
  /\ Len(sent.native) > 1
  /\ ~heap.live
  /\ gobuf # sent.val
  /\ col.live
  /\ col.data = sent.native

\* C14: the bytes ColumnBlob returned are the bytes the engine stored for
\* the column of that row, as many as it stored, and they read the same
\* after every later step and after Close.
C14_ColumnBlobIsCopy ==
  rcvd.acc = "ColumnBlob" => RcvdValues = {rcvd.stored}

\* ColumnBlob returned a blob with a zero byte in it, and the statement has
\* since left that row and been finalized
C14_Witness ==
  /\ rcvd.acc = "ColumnBlob"
  /\ rcvd.data = <<1, 0, 2>>
  /\ ~col.live
  /\ \E s \in sts : stmt[s].state = "finalized"
====
